---- MODULE Spec2Model ----
(***************************************************************************)
(* A model of the chess-playing agent (chess_agent.py): one agent, asked   *)
(* for a move whenever it is its turn, against an opponent that may play   *)
(* any legal move (Spec); of its search and its evaluator called on their  *)
(* own (SpecSearch); of a match of two agents with its clocks (match.py,   *)
(* SpecMatch); and of the opening table of the move book (move_book.py,    *)
(* SpecBook).                                                              *)
(*                                                                         *)
(* The rules engine (python-chess) is an external library.  It is modelled *)
(* as an abstract game: a position is the stack of moves played from the   *)
(* initial position, the moves of a position are numbered 1..NumLegal in   *)
(* the engine's enumeration order, and the engine's answers (number of     *)
(* legal moves, check, insufficient material, king data, the value of the  *)
(* evaluation terms that need board geometry) are fixed functions of the   *)
(* position, drawn from a family of games indexed by the variable seed.    *)
(*                                                                         *)
(* Wall-clock time is modelled by the order of the clock readings of one   *)
(* select_move call.  Readings are numbered 0, 1, 2, ... in program order. *)
(* As time is monotonic, "elapsed < time_limit" is true exactly for the    *)
(* readings numbered below some T1 and "elapsed > time_limit" exactly for  *)
(* the readings numbered T2 or more, with T1 <= T2.  T1 and T2 are inputs  *)
(* of each call.                                                           *)
(***************************************************************************)
EXTENDS Integers, Sequences, FiniteSets, TLC

VARIABLES seed, board, agent, last, match, move_book

vars == <<seed, board, agent, last, match, move_book>>

\* The Match object and the MoveBook object, which the agent's own
\* operations do not touch.
others == <<match, move_book>>

\* ---------------------------------------------------------------- bounds
\* Most legal moves a position has.
MaxMoves == 2
\* A game ends (no legal move) after at most this many plies.
GameLen == 4
\* Games are indexed 0..MaxSeed.
MaxSeed == 1
\* Legal moves of the initial position.
RootMoves == 3
\* Longest scripted move list of an agent.
MaxBook == 2
\* Largest number of the first clock reading at which the budget is used up.
MaxReads == 7
\* Most readings at which elapsed = time_limit exactly (T2 - T1).
MaxSlack == 1

\* ------------------------------------------------------------- constants
WHITE == TRUE
BLACK == FALSE
\* float('inf'): above every score evaluate can return.
Infinity == 1000000
\* The mate score of evaluate.
MateScore == 10000

\* The default of evaluate's depth parameter.
DefaultDepth == 0

\* "No move": Python's None.
None == -1
\* chess.Move.null(), what parse_san returns for "--"; never a legal move.
NullMove == 0

\* ------------------------------------------------- the rules engine
RECURSIVE Code(_)
\* A number naming the position (injective on move stacks).
Code(b) ==
    IF b = <<>> THEN 1
    ELSE Code(SubSeq(b, 1, Len(b) - 1)) * (MaxMoves + RootMoves + 1) + b[Len(b)]

\* The game's answer number salt for position b, in 0..n-1.
Rnd(b, salt, n) ==
    LET c == Code(b) % 1009
    IN (((c * 37 + seed * 101 + salt * 53 + 11) * (c + seed * 7 + salt * 3 + 1)) % 1009) % n

\* board.turn: White moves first, the sides alternate.
Turn(b) == (Len(b) % 2 = 0)

\* len(board.legal_moves): the initial position has RootMoves moves, a later
\* one has none, one or MaxMoves.
NumLegal(b) ==
    IF Len(b) >= GameLen THEN 0
    ELSE IF b = <<>> THEN RootMoves
    ELSE LET r == Rnd(b, 1, 8)
         IN IF r = 0 THEN 0 ELSE IF r = 1 THEN 1 ELSE MaxMoves

\* board.legal_moves, in the engine's enumeration order.
LegalMoves(b) == [i \in 1..NumLegal(b) |-> i]

\* board.push(move)
Push(b, m) == Append(b, m)

\* board.pop()
Pop(b) == SubSeq(b, 1, Len(b) - 1)

\* board.is_check(): not in the initial position.
IsCheck(b) == b # <<>> /\ Rnd(b, 2, 3) = 0

\* board.is_checkmate()
IsCheckmate(b) == NumLegal(b) = 0 /\ IsCheck(b)

\* board.is_stalemate()
IsStalemate(b) == NumLegal(b) = 0 /\ ~IsCheck(b)

\* board.is_insufficient_material(): not in the initial position, nor in
\* a checkmate.
IsInsufficientMaterial(b) == b # <<>> /\ ~IsCheckmate(b) /\ Rnd(b, 3, 11) = 0

\* board.is_game_over()
IsGameOver(b) == IsCheckmate(b) \/ IsStalemate(b) \/ IsInsufficientMaterial(b)

\* len(board.pieces(chess.KING, c)): each side has exactly one king.
KingCount(b, c) == 1

\* The number of legal moves that start on the square of c's king: none when
\* c is not the side to move (board.legal_moves holds the mover's moves only).
KingMoves(b, c) == IF Turn(b) = c THEN Rnd(b, 4, NumLegal(b) + 1) ELSE 0

\* Whether c's king stands on file a or h, or on rank 1 or 8.
KingOnEdge(b, c) == Rnd(b, IF c THEN 5 ELSE 6, 2) = 0

\* board.parse_san(san) for the scripted token san: "--" (token 0) parses to
\* the null move; the token i >= 1 is the SAN of the i-th legal move and
\* raises when the position has no such move.
ParseSan(b, san) ==
    IF san = 0 THEN [ok |-> TRUE, move |-> NullMove]
    ELSE IF san \in 1..NumLegal(b) THEN [ok |-> TRUE, move |-> san]
    ELSE [ok |-> FALSE, move |-> None]

\* move in board.legal_moves
IsLegal(b, m) == m \in 1..NumLegal(b)

\* ------------------------------------------------------- the evaluator
\* Steps 2 to 12 of evaluate (material, passed pawns, threats, safety,
\* capture opportunities, mobility, centre, coordination and the three
\* penalties), which read the pieces and their attackers: a value of the
\* position for each side.
PositionalTerms(b, color) == Rnd(b, IF color THEN 7 ELSE 8, 9) - 4

\* The forced-mate heuristic of evaluate.
KingConfinement(b, color) ==
    IF KingCount(b, ~color) = 1
    THEN (10 - KingMoves(b, ~color)) * 50
         + (IF KingOnEdge(b, ~color) THEN 100 ELSE 0)
         + (IF IsCheck(b) THEN (IF Turn(b) = color THEN 20 ELSE 0 - 20) ELSE 0)
    ELSE 0

\* An evaluator that takes the mated side for the mating one.
EvaluateSwapped(b, color, depth) ==
    IF IsCheckmate(b)
    THEN (IF Turn(b) = color THEN MateScore - depth ELSE 0 - MateScore + depth)
    ELSE IF IsStalemate(b) \/ IsInsufficientMaterial(b) THEN 0
    ELSE PositionalTerms(b, color) + KingConfinement(b, color)

\* self.evaluate(board, depth) of the agent playing color.
Evaluate(b, color, depth) ==
    IF IsCheckmate(b)
    THEN (IF Turn(b) # color THEN MateScore - depth ELSE 0 - MateScore + depth)
    ELSE IF IsStalemate(b) \/ IsInsufficientMaterial(b) THEN 0
    ELSE PositionalTerms(b, color) + KingConfinement(b, color)

\* ---------------------------------------------------------- the search
\* The element of a one-element set: the set binds the value of a call, so
\* that the call is evaluated once.
Only(S) == CHOOSE x \in S : TRUE

\* What a search call reports besides its result: whether some node of it
\* was cut by the deadline, whether some loop of it ended by a cutoff, the
\* (depth, stack length) pairs of the nodes it entered, whether every call
\* of it returned with the board it was entered with, the checkmate leaves
\* it evaluated, the number of nodes it entered and of those it expanded
\* (inner), the number of nodes that found the deadline passed (cuts), and
\* the first two numbers counted from the first such node on (late,
\* lateInner).
NoNotes ==
    [cut |-> FALSE, broke |-> FALSE, entries |-> {}, restored |-> TRUE, mates |-> {},
     nodes |-> 0, inner |-> 0, cuts |-> 0, late |-> 0, lateInner |-> 0]

\* The notes of a part of a call followed by the notes of its next part.
Merge(g, h) ==
    [cut |-> g.cut \/ h.cut, broke |-> g.broke \/ h.broke,
     entries |-> g.entries \cup h.entries,
     restored |-> g.restored /\ h.restored, mates |-> g.mates \cup h.mates,
     nodes |-> g.nodes + h.nodes, inner |-> g.inner + h.inner, cuts |-> g.cuts + h.cuts,
     late |-> IF g.cut THEN g.late + h.nodes ELSE h.late,
     lateInner |-> IF g.cut THEN g.lateInner + h.inner ELSE h.lateInner]

\* "return None, self.evaluate(board)" at a node entered with the clock at
\* reading k; cut tells whether the deadline test made it a leaf.
Leaf(b, depth, color, k, cut) ==
    LET score == Evaluate(b, color, DefaultDepth)
    IN [move |-> None, score |-> score, board |-> b, k |-> k,
        notes |-> [cut |-> cut, broke |-> FALSE, entries |-> {<<depth, Len(b)>>},
                   restored |-> TRUE,
                   mates |-> IF IsCheckmate(b)
                             THEN {[len |-> Len(b), score |-> score, won |-> Turn(b) # color]}
                             ELSE {},
                   nodes |-> 1, inner |-> 0, cuts |-> IF cut THEN 1 ELSE 0,
                   late |-> IF cut THEN 1 ELSE 0, lateInner |-> 0]]

\* A missing undo.
UndoMissing(b) == b

\* The undo of the move made before the recursive call.
Undo(b) == Pop(b)

\* "if score > value" of the maximizing branch.
MaxImproves(score, value) == score > value

\* A minimizing branch in which the last of equal scores wins.
MinImprovesOrTies(score, value) == score <= value

\* "if score < value" of the minimizing branch.
MinImproves(score, value) == score < value

\* "if alpha >= beta: break"
Cutoff(alpha, beta) == alpha >= beta

\* A deadline test that fires at one clock reading only.
PastDeadlineOnce(k, T2) == k = T2

\* "(time.time() - start_time) > time_limit" at the clock reading numbered k.
PastDeadline(k, T2) == k >= T2

RECURSIVE AlphaBetaSearch(_, _, _, _, _, _, _, _)
RECURSIVE MaxLoop(_, _, _, _, _, _, _, _, _, _, _, _, _)
RECURSIVE MinLoop(_, _, _, _, _, _, _, _, _, _, _, _, _)

\* The loop of the maximizing branch, from the i-th legal move on.
MaxLoop(b, moves, i, depth, alpha, beta, player, color, value, best, k, T2, notes) ==
    IF i > Len(moves)
    THEN [move |-> best, score |-> value, board |-> b, k |-> k, notes |-> notes]
    ELSE Only({LET move == moves[i]
                   b2 == Undo(r.board)
                   better == MaxImproves(r.score, value)
                   value2 == IF better THEN r.score ELSE value
                   best2 == IF better THEN move ELSE best
                   alpha2 == IF value2 > alpha THEN value2 ELSE alpha
                   notes2 == Merge(notes, r.notes)
               IN IF Cutoff(alpha2, beta)
                  THEN [move |-> best2, score |-> value2, board |-> b2, k |-> r.k,
                        notes |-> [notes2 EXCEPT !.broke = TRUE]]
                  ELSE MaxLoop(b2, moves, i + 1, depth, alpha2, beta, player, color,
                               value2, best2, r.k, T2, notes2)
               : r \in {AlphaBetaSearch(Push(b, moves[i]), depth - 1, alpha, beta,
                                        player, color, k, T2)}})

\* The loop of the minimizing branch, from the i-th legal move on.
MinLoop(b, moves, i, depth, alpha, beta, player, color, value, best, k, T2, notes) ==
    IF i > Len(moves)
    THEN [move |-> best, score |-> value, board |-> b, k |-> k, notes |-> notes]
    ELSE Only({LET move == moves[i]
                   b2 == Undo(r.board)
                   better == MinImproves(r.score, value)
                   value2 == IF better THEN r.score ELSE value
                   best2 == IF better THEN move ELSE best
                   beta2 == IF value2 < beta THEN value2 ELSE beta
                   notes2 == Merge(notes, r.notes)
               IN IF Cutoff(alpha, beta2)
                  THEN [move |-> best2, score |-> value2, board |-> b2, k |-> r.k,
                        notes |-> [notes2 EXCEPT !.broke = TRUE]]
                  ELSE MinLoop(b2, moves, i + 1, depth, alpha, beta2, player, color,
                               value2, best2, r.k, T2, notes2)
               : r \in {AlphaBetaSearch(Push(b, moves[i]), depth - 1, alpha, beta,
                                        player, color, k, T2)}})

\* self.alpha_beta_search(board, depth, alpha, beta, player, start_time,
\* time_limit) of the agent playing color, entered when k clock readings
\* have been made; the reading numbered k is past the deadline iff k >= T2.
\* The clock is read only when depth # 0 and the game is not over.
AlphaBetaSearch(b, depth, alpha, beta, player, color, k, T2) ==
    IF depth = 0 \/ IsGameOver(b) THEN Leaf(b, depth, color, k, FALSE)
    ELSE IF PastDeadline(k, T2) THEN Leaf(b, depth, color, k + 1, TRUE)
    ELSE LET here == [NoNotes EXCEPT !.entries = {<<depth, Len(b)>>}, !.nodes = 1,
                                     !.inner = 1]
         IN Only({[r EXCEPT !.notes.restored = r.notes.restored /\ r.board = b]
                  : r \in {IF Turn(b) = player
                           THEN MaxLoop(b, LegalMoves(b), 1, depth, alpha, beta, player,
                                        color, 0 - Infinity, None, k + 1, T2, here)
                           ELSE MinLoop(b, LegalMoves(b), 1, depth, alpha, beta, player,
                                        color, Infinity, None, k + 1, T2, here)}})

\* ---------------------------------------------------- the move selector
\* A scripted source that reads the first entry of its list on every call.
ScriptedFirst(b, moves, played) ==
    LET p == ParseSan(b, moves[1])
    IN IF p.ok /\ IsLegal(b, p.move) THEN p.move ELSE None

\* One scripted source of select_move: the entry at index played of the
\* list moves is parsed and, when it parses to a legal move, played.
Scripted(b, moves, played) ==
    LET p == ParseSan(b, moves[played + 1])
    IN IF p.ok /\ IsLegal(b, p.move) THEN p.move ELSE None

\* What the deepening loop records of a search call and its result: k0 and
\* k are the numbers of clock readings made before and after the call.
CallRecord(depth, k0, r) ==
    [depth |-> depth, move |-> r.move, score |-> r.score, board |-> r.board, k0 |-> k0,
     k |-> r.k, notes |-> r.notes]

RECURSIVE DeepenKeepFirst(_, _, _, _, _, _, _, _)
\* A deepening loop that never overwrites a best move it has.
DeepenKeepFirst(b, color, depth, best, k, T1, T2, calls) ==
    IF ~(k < T1)
    THEN [move |-> best, board |-> b, calls |-> calls, exit |-> k]
    ELSE Only({DeepenKeepFirst(r.board, color, depth + 1,
                               IF best = None THEN r.move ELSE best, r.k, T1, T2,
                               Append(calls, CallRecord(depth, k + 1, r)))
               : r \in {AlphaBetaSearch(b, depth, 0 - Infinity, Infinity, color, color,
                                        k + 1, T2)}})

RECURSIVE DeepenUntilResolved(_, _, _, _, _, _, _, _)
\* A deepening loop that also stops as soon as a depth has given a move.
DeepenUntilResolved(b, color, depth, best, k, T1, T2, calls) ==
    IF ~(k < T1 /\ best = None)
    THEN [move |-> best, board |-> b, calls |-> calls, exit |-> k]
    ELSE Only({DeepenUntilResolved(r.board, color, depth + 1,
                                   IF r.move # None THEN r.move ELSE best, r.k, T1, T2,
                                   Append(calls, CallRecord(depth, k + 1, r)))
               : r \in {AlphaBetaSearch(b, depth, 0 - Infinity, Infinity, color, color,
                                        k + 1, T2)}})

RECURSIVE Deepen(_, _, _, _, _, _, _, _)
\* The iterative-deepening loop of select_move, at the loop test made when
\* k clock readings have been made: the test holds iff k < T1.  calls lists
\* the search calls made so far; exit is the number of the reading at which
\* the loop test failed.
Deepen(b, color, depth, best, k, T1, T2, calls) ==
    IF ~(k < T1)
    THEN [move |-> best, board |-> b, calls |-> calls, exit |-> k]
    ELSE Only({Deepen(r.board, color, depth + 1,
                      IF r.move # None THEN r.move ELSE best, r.k, T1, T2,
                      Append(calls, CallRecord(depth, k + 1, r)))
               : r \in {AlphaBetaSearch(b, depth, 0 - Infinity, Infinity, color, color,
                                        k + 1, T2)}})

RECURSIVE FallbackScanLast(_, _, _, _, _, _)
\* A scan in which the last of the moves of equal score wins.
FallbackScanLast(b, moves, i, color, best_eval, fallback_move) ==
    IF i > Len(moves) THEN [move |-> fallback_move, board |-> b]
    ELSE LET move == moves[i]
             pushed == Push(b, move)
             eval_val == Evaluate(pushed, color, DefaultDepth)
             b2 == Pop(pushed)
         IN IF eval_val >= best_eval
            THEN FallbackScanLast(b2, moves, i + 1, color, eval_val, move)
            ELSE FallbackScanLast(b2, moves, i + 1, color, best_eval, fallback_move)

RECURSIVE FallbackScan(_, _, _, _, _, _)
\* The one-ply scan of select_move, from the i-th legal move on.
FallbackScan(b, moves, i, color, best_eval, fallback_move) ==
    IF i > Len(moves) THEN [move |-> fallback_move, board |-> b]
    ELSE LET move == moves[i]
             pushed == Push(b, move)
             eval_val == Evaluate(pushed, color, DefaultDepth)
             b2 == Pop(pushed)
         IN IF eval_val > best_eval
            THEN FallbackScan(b2, moves, i + 1, color, eval_val, move)
            ELSE FallbackScan(b2, moves, i + 1, color, best_eval, fallback_move)

\* A search path that returns best_move even when it is None.
SearchPathNoFallback(self, b, T1, T2) ==
    LET d == Deepen(b, self.color, 1, None, 0, T1, T2, <<>>)
    IN [move |-> d.move, agent |-> self, board |-> d.board, source |-> "search",
        calls |-> d.calls, exit |-> d.exit]

\* The search path of select_move: the deepening loop, then the fallback.
SearchPath(self, b, T1, T2) ==
    LET d == Deepen(b, self.color, 1, None, 0, T1, T2, <<>>)
        f == FallbackScan(d.board, LegalMoves(d.board), 1, self.color, 0 - Infinity, None)
    IN IF d.move # None
       THEN [move |-> d.move, agent |-> self, board |-> d.board, source |-> "search",
             calls |-> d.calls, exit |-> d.exit]
       ELSE [move |-> f.move, agent |-> self, board |-> f.board, source |-> "fallback",
             calls |-> d.calls, exit |-> d.exit]

\* A scripted move that advances the history counter whatever its source.
PlayedWrongCounter(self, b, move, source) ==
    [move |-> move, board |-> b, source |-> source, calls |-> <<>>, exit |-> None,
     agent |-> [self EXCEPT !.magnus_moves_played = @ + 1]]

\* A scripted move that advances both counters.
PlayedBoth(self, b, move, source) ==
    [move |-> move, board |-> b, source |-> source, calls |-> <<>>, exit |-> None,
     agent |-> [self EXCEPT !.opening_moves_played = @ + 1, !.magnus_moves_played = @ + 1]]

\* The scripted move was played: the result of select_move.
Played(self, b, move, source) ==
    [move |-> move, board |-> b, source |-> source, calls |-> <<>>, exit |-> None,
     agent |-> IF source = "opening"
               THEN [self EXCEPT !.opening_moves_played = @ + 1]
               ELSE [self EXCEPT !.magnus_moves_played = @ + 1]]

\* A selector in which a White agent whose opening source gave no move tries
\* its history list next.
SelectMoveFallThrough(self, b, T1, T2) ==
    IF self.color = WHITE /\ self.test_opening_moves # <<>>
          /\ self.opening_moves_played < Len(self.test_opening_moves)
          /\ Scripted(b, self.test_opening_moves, self.opening_moves_played) # None
    THEN Played(self, b, Scripted(b, self.test_opening_moves, self.opening_moves_played),
                "opening")
    ELSE IF self.magnus_moves_played < Len(self.magnus_moves)
            /\ Scripted(b, self.magnus_moves, self.magnus_moves_played) # None
         THEN Played(self, b, Scripted(b, self.magnus_moves, self.magnus_moves_played),
                     "magnus")
         ELSE SearchPath(self, b, T1, T2)

\* self.select_move(board, time_limit) of the agent self: the move returned,
\* the agent and the board after the call, the source that gave the move,
\* and the search calls made.
SelectMove(self, b, T1, T2) ==
    IF self.color = WHITE /\ self.test_opening_moves # <<>>
    THEN IF self.opening_moves_played < Len(self.test_opening_moves)
            /\ Scripted(b, self.test_opening_moves, self.opening_moves_played) # None
         THEN Played(self, b, Scripted(b, self.test_opening_moves, self.opening_moves_played),
                     "opening")
         ELSE SearchPath(self, b, T1, T2)
    ELSE IF self.magnus_moves_played < Len(self.magnus_moves)
            /\ Scripted(b, self.magnus_moves, self.magnus_moves_played) # None
         THEN Played(self, b, Scripted(b, self.magnus_moves, self.magnus_moves_played),
                     "magnus")
         ELSE SearchPath(self, b, T1, T2)

\* --------------------------------------------------------------- the game
\* The scripted lists an agent can be built with: SAN tokens 0..MaxMoves.
Books == UNION {[1..n -> 0..MaxMoves] : n \in 0..MaxBook}

\* ChessAgent.__init__: the agent of a colour, with its two lists.
NewAgent(c, opening, magnus) ==
    [color |-> c, test_opening_moves |-> opening, magnus_moves |-> magnus,
     opening_moves_played |-> 0, magnus_moves_played |-> 0, failed_moves_count |-> 0]

\* The call just made, with its arguments and what it returned: none.
NoCall == [op |-> "none"]

\* No Match object, no MoveBook object.
NoMatch == [status |-> "none"]
NoBook == [openings |-> <<>>]

\* A new game from the initial position, and a newly built agent.
Init ==
    /\ seed \in 0..MaxSeed
    /\ board = <<>>
    /\ \E c \in BOOLEAN, opening \in Books, magnus \in Books :
          agent = NewAgent(c, opening, magnus)
    /\ last = NoCall
    /\ match = NoMatch
    /\ move_book = NoBook

\* The agent's turn, as in the loop of Match.play: select_move is called on
\* the board and the move it returns, if any, is made; after a call that
\* returned no move the caller makes no other.  (The inputs T1 and T2 are
\* read by the search path only.)
Call ==
    /\ Turn(board) = agent.color
    /\ last.op = "none"
    /\ \E T1 \in 0..MaxReads : \E T2 \in T1..(T1 + MaxSlack) :
       \E r \in {SelectMove(agent, board, T1, T2)} :
          /\ r.source \in {"opening", "magnus"} => T1 = 0 /\ T2 = 0
          /\ agent' = r.agent
          /\ last' = [op |-> "select_move", before |-> agent, boardBefore |-> board,
                      T1 |-> T1, T2 |-> T2, res |-> r]
          /\ board' = IF r.move = None THEN r.board ELSE Push(r.board, r.move)
          /\ UNCHANGED seed
          /\ UNCHANGED others

\* The opponent's turn: any legal move.
Reply ==
    /\ Turn(board) # agent.color
    /\ ~IsGameOver(board)
    /\ \E m \in 1..NumLegal(board) : board' = Push(board, m)
    /\ last' = NoCall
    /\ UNCHANGED <<seed, agent>>
    /\ UNCHANGED others

Next == Call \/ Reply

Spec == Init /\ [][Next]_vars

\* ------------------------------------------- the search and the evaluator
\* Largest depth argument given to evaluate.
MaxEvalDepth == 4
\* The games searched are indexed 0..MaxSearchSeed.
MaxSearchSeed == 15

\* A position of the game is reached by any legal move.
Advance ==
    /\ last.op = "none"
    /\ ~IsGameOver(board)
    /\ \E m \in 1..NumLegal(board) : board' = Push(board, m)
    /\ UNCHANGED <<seed, agent, last>>
    /\ UNCHANGED others

\* agent.alpha_beta_search(board, depth, -inf, +inf, player, start_time,
\* time_limit) with a deadline that does not fire.
Search ==
    /\ last.op = "none"
    /\ \E depth \in 0..GameLen, player \in BOOLEAN :
         last' = [op |-> "alpha_beta_search", boardBefore |-> board, depth |-> depth,
                  player |-> player,
                  res |-> AlphaBetaSearch(board, depth, 0 - Infinity, Infinity, player,
                                          agent.color, 0, Infinity)]
    /\ UNCHANGED <<seed, board, agent>>
    /\ UNCHANGED others

\* agent.evaluate(board, depth)
Eval ==
    /\ last.op = "none"
    /\ \E depth \in 0..MaxEvalDepth :
         last' = [op |-> "evaluate", boardBefore |-> board, depth |-> depth,
                  value |-> Evaluate(board, agent.color, depth)]
    /\ UNCHANGED <<seed, board, agent>>
    /\ UNCHANGED others

InitSearch ==
    /\ seed \in 0..MaxSearchSeed
    /\ board = <<>>
    /\ \E c \in BOOLEAN : agent = NewAgent(c, <<>>, <<>>)
    /\ last = NoCall
    /\ match = NoMatch
    /\ move_book = NoBook

NextSearch == Advance \/ Search \/ Eval

SpecSearch == InitSearch /\ [][NextSearch]_vars

\* -------------------------------------------------------------- the match
\* Time is counted in ticks of 0.1 s.
\* The clocks of Match.__init__: 10.0 s.
InitialClock == 100
\* The increment of Match.play: 0.1 s.
Increment == 1
\* time.sleep(0.1) of select_move.
SleepTicks == 1

\* Longest scripted move list of an agent of a match.
MaxMatchBook == 1
\* Largest T1 of a select_move call of a match.
MaxMatchReads == 3
\* A scripted move takes 0..MaxThink steps of ThinkStep ticks besides the
\* sleep, or the whole clock and up to MaxOverrun ticks more.
MaxThink == 1
ThinkStep == 9
\* Most ticks by which a call overruns its time limit.
MaxOverrun == 1

\* The scripted lists of the agents of a match.
MatchBooks == UNION {[1..n -> 0..MaxMoves] : n \in 0..MaxMatchBook}

\* Python's max.
Max(a, b) == IF a > b THEN a ELSE b

\* A clock update that credits no increment.
ClockAfterNoIncrement(clock, move_time) == Max(0, clock - move_time)

\* A clock update that credits the increment before it clamps at 0.
ClockAfterClampLast(clock, move_time) == Max(0, clock - move_time + Increment)

\* "max(0, clock - move_time) + 0.1"
ClockAfter(clock, move_time) == Max(0, clock - move_time) + Increment

\* The times, in ticks, that the call of select_move with result r can take
\* after its sleep.  A scripted move takes any time.  On the search path
\* the loop test failed at the reading numbered r.exit: the time elapsed at
\* that reading was below time_limit if r.exit < T1, equal to it if
\* T1 <= r.exit < T2 and above it otherwise, and the call returns at or after
\* that reading.
ThinkTimes(r, T1, T2, time_limit) ==
    IF r.exit = None
    THEN {j * ThinkStep : j \in 0..MaxThink} \cup {time_limit + j : j \in 0..MaxOverrun}
    ELSE IF r.exit < T1 THEN {0, time_limit - 1}
    ELSE IF r.exit < T2 THEN {time_limit + j : j \in 0..MaxOverrun}
    ELSE {time_limit + j : j \in 1..MaxOverrun}

\* move_time of Match.play: the sleep of select_move and the time after it.
MoveTimes(r, T1, T2, time_limit) == {SleepTicks + t : t \in ThinkTimes(r, T1, T2, time_limit)}

\* Match(white_agent, black_agent) on two newly built agents.  (The opening
\* list of a Black agent is never read by select_move: it is left empty.)
NewMatch(opening, magnus_white, magnus_black) ==
    [white_agent |-> NewAgent(WHITE, opening, magnus_white),
     black_agent |-> NewAgent(BLACK, <<>>, magnus_black),
     white_clock |-> InitialClock, black_clock |-> InitialClock,
     status |-> "playing",
     \* whether the last move of each side took its whole clock or more
     white_spent |-> FALSE, black_spent |-> FALSE]

InitMatch ==
    /\ seed \in 0..MaxSeed
    /\ board = <<>>
    /\ \E opening \in MatchBooks, magnus_white \in MatchBooks, magnus_black \in MatchBooks :
          match = NewMatch(opening, magnus_white, magnus_black)
    /\ agent = match.white_agent
    /\ last = NoCall
    /\ move_book = NoBook

\* One turn of the loop of Match.play: the forfeit test, the select_move
\* call, the clock update and the push.  agent is current_agent; last is the
\* record of the turn.
PlayTurn ==
    /\ match.status = "playing"
    /\ ~IsGameOver(board)
    /\ LET side == Turn(board)
           current_agent == IF side = WHITE THEN match.white_agent ELSE match.black_agent
           available_time == IF side = WHITE THEN match.white_clock ELSE match.black_clock
           spent == IF side = WHITE THEN match.white_spent ELSE match.black_spent
           turn == [op |-> "play", side |-> side, boardBefore |-> board, before |-> match,
                    spent |-> spent]
       IN IF available_time <= 0
          THEN /\ match' = [match EXCEPT !.status = "forfeit"]
               /\ agent' = current_agent
               /\ last' = [forfeit |-> TRUE, calls |-> 0] @@ turn
               /\ UNCHANGED board
          ELSE \E T1 \in 0..MaxMatchReads : \E T2 \in T1..(T1 + MaxSlack) :
               \E r \in {SelectMove(current_agent, board, T1, T2)} :
               \E move_time \in MoveTimes(r, T1, T2, available_time) :
                  /\ r.source \in {"opening", "magnus"} => T1 = 0 /\ T2 = 0
                  /\ agent' = r.agent
                  /\ match' =
                        IF side = WHITE
                        THEN [match EXCEPT !.white_agent = r.agent,
                                           !.white_clock = ClockAfter(@, move_time),
                                           !.white_spent = (move_time >= available_time),
                                           !.status = IF r.move = None THEN "error" ELSE @]
                        ELSE [match EXCEPT !.black_agent = r.agent,
                                           !.black_clock = ClockAfter(@, move_time),
                                           !.black_spent = (move_time >= available_time),
                                           !.status = IF r.move = None THEN "error" ELSE @]
                  /\ board' = IF r.move = None THEN r.board ELSE Push(r.board, r.move)
                  /\ last' = [forfeit |-> FALSE, calls |-> 1, time_limit |-> available_time,
                              move_time |-> move_time, move |-> r.move,
                              source |-> r.source, searches |-> Len(r.calls)] @@ turn
    /\ UNCHANGED <<seed, move_book>>

\* The end of Match.play: the loop is left on a finished game or by the
\* break of the forfeit, and the result is returned.
Finish ==
    /\ \/ match.status = "playing" /\ IsGameOver(board)
       \/ match.status = "forfeit"
    /\ match' = [match EXCEPT !.status = "over"]
    /\ UNCHANGED <<seed, board, agent, last, move_book>>

NextMatch == PlayTurn \/ Finish

SpecMatch == InitMatch /\ [][NextMatch]_vars

\* ---------------------------------------------------------- the move book
\* A string is a sequence of atoms: a blank " ", a digit "1", the marks "."
\* and ",", and the letter groups "e4", "c5", "etc" and "Etc".
\* Most tokens of a move sequence.
MaxTokens == 3

\* The tokens a move sequence is made of: "1", "1.", "e4", "c5", "e4,",
\* "etc", "Etc.", ".", "1...c5" and ".1".
Shapes ==
    {<<"1">>, <<"1", ".">>, <<"e4">>, <<"c5">>, <<"e4", ",">>, <<"etc">>, <<"Etc", ".">>,
     <<".">>, <<"1", ".", ".", ".", "c5">>, <<".", "1">>}

RECURSIVE Join(_, _)
\* The tokens, each followed by the separator sep.
Join(tokens, sep) == IF tokens = <<>> THEN <<>> ELSE Head(tokens) \o sep \o Join(Tail(tokens), sep)

\* The move sequences of the rows: at most MaxTokens tokens, separated by
\* one blank, or by two with a blank in front.
Examples ==
    UNION {{Join(t, <<" ">>), <<" ">> \o Join(t, <<" ", " ">>)} :
           t \in UNION {[1..n -> Shapes] : n \in 0..MaxTokens}}

\* The ECO codes of the rows, and a code of no row.
Ecos == {"A01", "B20"}
NoEco == "Z99"

RECURSIVE StripLeft(_, _)
StripLeft(t, chars) ==
    IF t # <<>> /\ Head(t) \in chars THEN StripLeft(Tail(t), chars) ELSE t

RECURSIVE StripRight(_, _)
StripRight(t, chars) ==
    IF t # <<>> /\ t[Len(t)] \in chars THEN StripRight(SubSeq(t, 1, Len(t) - 1), chars) ELSE t

\* A strip that removes the trailing characters only.
StripTrailing(t, chars) == StripRight(t, chars)

\* str.strip(chars): the leading and the trailing characters of chars go.
Strip(t, chars) == StripRight(StripLeft(t, chars), chars)

RECURSIVE Split(_, _)
\* re.split(r'\s+', s): the pieces of s between its runs of blanks, cur
\* being the piece read so far.
Split(s, cur) ==
    IF s = <<>> THEN <<cur>>
    ELSE IF Head(s) = " " THEN <<cur>> \o Split(StripLeft(s, {" "}), <<>>)
    ELSE Split(Tail(s), Append(cur, Head(s)))

\* str.isdigit()
IsDigit(t) == t # <<>> /\ \A i \in 1..Len(t) : t[i] = "1"

\* str.lower()
Lower(t) == [i \in 1..Len(t) |-> IF t[i] = "Etc" THEN "etc" ELSE t[i]]

RECURSIVE TokenMoves(_, _)
\* The loop over the tokens: each is stripped of "." and ",", and appended
\* to moves unless it is a number or the word etc.
TokenMoves(tokens, moves) ==
    IF tokens = <<>> THEN moves
    ELSE LET token == Strip(Head(tokens), {".", ","})
         IN IF IsDigit(token) THEN TokenMoves(Tail(tokens), moves)
            ELSE IF Lower(token) \in {<<"etc">>, <<"etc", ".">>}
                 THEN TokenMoves(Tail(tokens), moves)
            ELSE TokenMoves(Tail(tokens), Append(moves, token))

\* moves[start::2], start counted from 0.
EveryOther(moves, start) ==
    [i \in 1..((Len(moves) - start + 1) \div 2) |-> moves[start + 2 * i - 1]]

\* The dictionary entry made of the move sequence of one row.
ConvertRow(move_sequence) ==
    LET tokens == Split(Strip(move_sequence, {" "}), <<>>)
        moves == TokenMoves(tokens, <<>>)
    IN [white |-> EveryOther(moves, 0), black |-> EveryOther(moves, 1)]

RECURSIVE ConvertRows(_, _)
\* The loop over the rows, openings_dict being the dictionary so far.
ConvertRows(rows, openings_dict) ==
    IF rows = <<>> THEN openings_dict
    ELSE ConvertRows(Tail(rows),
                     [c \in DOMAIN openings_dict \cup {Head(rows).eco} |->
                         IF c = Head(rows).eco THEN ConvertRow(Head(rows).eco_example)
                         ELSE openings_dict[c]])

\* self._convert_ecocodes_to_dict(df_ecocodes)
ConvertEcocodesToDict(df_ecocodes) == ConvertRows(df_ecocodes, <<>>)

\* self.get_opening_moves(opening_code, color) on the dictionary openings.
GetOpeningMoves(openings, opening_code, color) ==
    IF opening_code \in DOMAIN openings
    THEN (IF color = WHITE THEN openings[opening_code].white
          ELSE openings[opening_code].black)
    ELSE <<>>

\* MoveBook(moves_white, moves_black, openings): df is the table given.
NewMoveBook(df) == [openings |-> ConvertEcocodesToDict(df), df |-> df]

\* A move book built of a table of no row, or of the row B20 "1. e4 c5"
\* followed by a row of any code and move sequence.
InitBook ==
    /\ seed = 0
    /\ board = <<>>
    /\ agent = NewAgent(WHITE, <<>>, <<>>)
    /\ last = NoCall
    /\ match = NoMatch
    /\ \/ move_book = NewMoveBook(<<>>)
       \/ \E eco \in Ecos, example \in Examples :
             move_book = NewMoveBook(<<[eco |-> "B20",
                                        eco_example |-> <<"1", ".", " ", "e4", " ", "c5">>],
                                       [eco |-> eco, eco_example |-> example]>>)

\* move_book.get_opening_moves(opening_code, color)
Lookup ==
    /\ \E opening_code \in Ecos \cup {NoEco}, color \in BOOLEAN :
          last' = [op |-> "get_opening_moves", opening_code |-> opening_code,
                   color |-> color,
                   res |-> GetOpeningMoves(move_book.openings, opening_code, color)]
    /\ UNCHANGED <<seed, board, agent, match, move_book>>

NextBook == Lookup

SpecBook == InitBook /\ [][NextBook]_vars

\* ------------------------------------------------------------- properties
\* The last call was a select_move call.
Selected == last.op = "select_move"

\* The entry of a scripted list at index played exists, parses in position b
\* and is a legal move of b.
ParsesLegal(b, moves, played) ==
    /\ played < Len(moves)
    /\ ParseSan(b, moves[played + 1]).ok
    /\ ParseSan(b, moves[played + 1]).move \in 1..NumLegal(b)

\* The largest element of a non-empty set of integers.
Largest(S) == CHOOSE x \in S : \A y \in S : y <= x

\* The indices of the search calls of the last select_move call that
\* returned a move.
Gave == {i \in 1..Len(last.res.calls) : last.res.calls[i].move # None}

\* The last select_move call was made by a White agent with an opening list
\* whose next entry parses to a legal move.
OpeningReady ==
    /\ Selected
    /\ last.before.color = WHITE
    /\ last.before.test_opening_moves # <<>>
    /\ ParsesLegal(last.boardBefore, last.before.test_opening_moves,
                   last.before.opening_moves_played)

\* C1: a White agent whose next opening entry parses to a legal move returns
\* that move, advances opening_moves_played by exactly 1, leaves
\* magnus_moves_played alone and makes no alpha_beta_search call.
C1_OpeningMovePlayed ==
    OpeningReady =>
        /\ last.res.move = ParseSan(last.boardBefore,
                                    last.before.test_opening_moves[
                                        last.before.opening_moves_played + 1]).move
        /\ agent.opening_moves_played = last.before.opening_moves_played + 1
        /\ agent.magnus_moves_played = last.before.magnus_moves_played
        /\ last.res.calls = <<>>

\* The second opening move of a list has just been played.
C1_Witness ==
    /\ OpeningReady
    /\ last.res.source = "opening"
    /\ agent.opening_moves_played = 2

\* C2 as stated: the search call that gave the returned move was not cut
\* short by the deadline.
C2_NeverFromCutCall ==
    Selected /\ last.res.source = "search" =>
        ~last.res.calls[Largest(Gave)].notes.cut

\* C2 as amended: the returned move is the move of the last search call
\* that returned a move; a call returns no move only when its root was
\* entered past the deadline or is a finished game, and such a call does
\* not overwrite the best move.
C2_LastMoveKept ==
    Selected /\ last.res.source \in {"search", "fallback"} =>
        /\ (Gave = {}) <=> (last.res.source = "fallback")
        /\ Gave # {} => last.res.move = last.res.calls[Largest(Gave)].move
        /\ \A i \in 1..Len(last.res.calls) :
              last.res.calls[i].move = None =>
                 /\ last.res.calls[i].notes.entries
                       = {<<last.res.calls[i].depth, Len(last.boardBefore)>>}
                 /\ last.res.calls[i].notes.cut \/ IsGameOver(last.boardBefore)

\* A deeper call entered past the deadline returned no move and the move of
\* a shallower call was returned.
C2_Witness ==
    /\ Selected
    /\ last.res.source = "search"
    /\ \E i \in 1..Len(last.res.calls) :
          /\ i > Largest(Gave)
          /\ last.res.calls[i].notes.cut

RECURSIVE Minimax(_, _, _, _)
\* The unpruned minimax of the tree below b: the same leaves, the same move
\* order, the first of the best moves.
Minimax(b, depth, player, color) ==
    IF depth = 0 \/ IsGameOver(b)
    THEN [move |-> None, score |-> Evaluate(b, color, 0)]
    ELSE LET sc == [i \in 1..NumLegal(b) |-> Minimax(Push(b, i), depth - 1, player, color).score]
             best == CHOOSE x \in {sc[i] : i \in DOMAIN sc} :
                        \A i \in DOMAIN sc : IF Turn(b) = player THEN sc[i] <= x ELSE sc[i] >= x
             first == CHOOSE i \in DOMAIN sc : sc[i] = best /\ \A j \in 1..(i - 1) : sc[j] # best
         IN [move |-> first, score |-> best]

RECURSIVE Expanded(_, _)
\* The number of nodes of the tree below b that are not leaves.
Expanded(b, depth) ==
    IF depth = 0 \/ IsGameOver(b) THEN 0
    ELSE LET RECURSIVE Sum(_)
             Sum(i) == IF i = 0 THEN 0 ELSE Expanded(Push(b, i), depth - 1) + Sum(i - 1)
         IN 1 + Sum(NumLegal(b))

\* C3: with the full window and no deadline, alpha_beta_search returns the
\* move and the score of the unpruned minimax.
C3_SameAsMinimax ==
    last.op = "alpha_beta_search" =>
        /\ last.res.move = Minimax(last.boardBefore, last.depth, last.player, agent.color).move
        /\ last.res.score = Minimax(last.boardBefore, last.depth, last.player, agent.color).score

\* A search of depth 3 or more that pruned: it expanded fewer nodes than
\* the tree has.
C3_Witness ==
    /\ last.op = "alpha_beta_search"
    /\ last.depth >= 3
    /\ last.res.notes.broke
    /\ last.res.k < Expanded(last.boardBefore, last.depth)

\* C4: every push of alpha_beta_search and of the fallback scan is undone:
\* select_move and each of its search calls, nested ones included, return
\* with the board they were entered with, and a node entered at recursion
\* depth d sees a move stack d longer than the root's.
C4_BoardRestored ==
    Selected =>
        /\ last.res.board = last.boardBefore
        /\ \A i \in 1..Len(last.res.calls) :
              /\ last.res.calls[i].board = last.boardBefore
              /\ last.res.calls[i].notes.restored
              /\ \A e \in last.res.calls[i].notes.entries :
                    e[2] = Len(last.boardBefore) + (last.res.calls[i].depth - e[1])

\* A select_move call whose searches left a loop by a cutoff, returned from
\* a node cut by the deadline and from a checkmate leaf.
C4_Witness ==
    /\ Selected
    /\ \E i \in 1..Len(last.res.calls) : last.res.calls[i].notes.broke
    /\ \E i \in 1..Len(last.res.calls) :
          last.res.calls[i].notes.cut /\ last.res.calls[i].move # None
    /\ \E i \in 1..Len(last.res.calls) : last.res.calls[i].notes.mates # {}

\* C5: on a position that has a legal move, select_move returns a legal
\* move of that position.
C5_ReturnsLegalMove ==
    Selected /\ NumLegal(last.boardBefore) > 0 =>
        last.res.move \in 1..NumLegal(last.boardBefore)

\* The budget allowed no search call and the fallback scan gave the move.
C5_Witness ==
    /\ Selected
    /\ NumLegal(last.boardBefore) > 0
    /\ last.res.source = "fallback"
    /\ last.res.calls = <<>>
    /\ last.res.move \in 1..NumLegal(last.boardBefore)

\* C6 as stated: when the next opening entry of a White agent fails and the
\* next history entry parses to a legal move, the history move is played
\* before any search is run.
C6_HistoryAfterFailedOpening ==
    /\ Selected
    /\ last.before.color = WHITE
    /\ last.before.test_opening_moves # <<>>
    /\ last.before.opening_moves_played < Len(last.before.test_opening_moves)
    /\ ~ParsesLegal(last.boardBefore, last.before.test_opening_moves,
                    last.before.opening_moves_played)
    /\ ParsesLegal(last.boardBefore, last.before.magnus_moves,
                   last.before.magnus_moves_played)
    => /\ last.res.source = "magnus"
       /\ last.res.calls = <<>>

\* The last select_move call was made by an agent that plays Black or has
\* no opening list, and whose next history entry parses to a legal move.
HistoryReady ==
    /\ Selected
    /\ last.before.color = BLACK \/ last.before.test_opening_moves = <<>>
    /\ ParsesLegal(last.boardBefore, last.before.magnus_moves,
                   last.before.magnus_moves_played)

\* C7: such an agent returns the history move, advances magnus_moves_played
\* by exactly 1, leaves opening_moves_played alone and makes no search call.
C7_HistoryMovePlayed ==
    HistoryReady =>
        /\ last.res.move = ParseSan(last.boardBefore,
                                    last.before.magnus_moves[
                                        last.before.magnus_moves_played + 1]).move
        /\ agent.magnus_moves_played = last.before.magnus_moves_played + 1
        /\ agent.opening_moves_played = last.before.opening_moves_played
        /\ last.res.calls = <<>>

\* A Black agent that has an opening list plays the second move of its
\* history list.
C7_Witness ==
    /\ HistoryReady
    /\ last.before.color = BLACK
    /\ last.before.test_opening_moves # <<>>
    /\ last.res.source = "magnus"
    /\ agent.magnus_moves_played = 2

\* C8: the counters stay within their lists; a select_move call advances a
\* counter by 1 when it returns a move of that source and leaves it alone
\* otherwise; a source whose counter has reached the length of its list
\* gives no move.
C8_CountersAdvance ==
    /\ agent.opening_moves_played \in 0..Len(agent.test_opening_moves)
    /\ agent.magnus_moves_played \in 0..Len(agent.magnus_moves)
    /\ Selected =>
          /\ agent.test_opening_moves = last.before.test_opening_moves
          /\ agent.magnus_moves = last.before.magnus_moves
          /\ agent.opening_moves_played = last.before.opening_moves_played
                + (IF last.res.source = "opening" THEN 1 ELSE 0)
          /\ agent.magnus_moves_played = last.before.magnus_moves_played
                + (IF last.res.source = "magnus" THEN 1 ELSE 0)
          /\ last.before.opening_moves_played = Len(last.before.test_opening_moves)
                => last.res.source # "opening"
          /\ last.before.magnus_moves_played = Len(last.before.magnus_moves)
                => last.res.source # "magnus"

\* A White agent that has played its whole opening list of two moves is
\* called again, and the move comes from the search.
C8_Witness ==
    /\ Selected
    /\ last.before.color = WHITE
    /\ Len(last.before.test_opening_moves) = 2
    /\ last.before.opening_moves_played = 2
    /\ last.res.source \in {"search", "fallback"}
    /\ agent.opening_moves_played = 2

\* C9 as stated: a checkmate leaf of the search is scored with its number
\* of plies from the root, so that of two mates of the same side the nearer
\* one is the better for the mating side.
C9_MateDistanceInSearch ==
    last.op = "alpha_beta_search" =>
        /\ \A m \in last.res.notes.mates :
              m.score = IF m.won THEN 10000 - (m.len - Len(last.boardBefore))
                                 ELSE (m.len - Len(last.boardBefore)) - 10000
        /\ \A m1, m2 \in last.res.notes.mates :
              m1.len < m2.len /\ m1.won = m2.won =>
                 IF m1.won THEN m1.score > m2.score ELSE m1.score < m2.score

\* C10: evaluate of a checkmate is 10000 - depth (above 9000) when the
\* opponent of the agent is mated and depth - 10000 (below -9000) when the
\* agent is; evaluate of a stalemate or of insufficient material is 0.
C10_TerminalScores ==
    last.op = "evaluate" =>
        /\ IsCheckmate(last.boardBefore) /\ Turn(last.boardBefore) # agent.color
              => last.value = 10000 - last.depth /\ last.value > 9000
        /\ IsCheckmate(last.boardBefore) /\ Turn(last.boardBefore) = agent.color
              => last.value = last.depth - 10000 /\ last.value < 0 - 9000
        /\ IsStalemate(last.boardBefore) \/ IsInsufficientMaterial(last.boardBefore)
              => last.value = 0

\* evaluate is given a position in which the agent is checkmated, and a
\* depth that is not 0.
C10_Witness ==
    /\ last.op = "evaluate"
    /\ IsCheckmate(last.boardBefore)
    /\ Turn(last.boardBefore) = agent.color
    /\ last.depth > 0
    /\ last.value = last.depth - 10000

\* The position is none of the terminal positions of evaluate.
NonTerminal(b) == ~IsCheckmate(b) /\ ~IsStalemate(b) /\ ~IsInsufficientMaterial(b)

\* Side c has its king and no other piece: a fact of the position that
\* evaluate never asks for (never in the initial position).
BareKing(b, c) == b # <<>> /\ Rnd(b, IF c THEN 9 ELSE 10, 3) = 0

\* C11 as stated: in a non-terminal position in which the opponent has a
\* piece besides its king, the king-confinement terms add nothing to the
\* value of evaluate.
C11_BonusOnlyForBareKing ==
    /\ last.op = "evaluate"
    /\ NonTerminal(last.boardBefore)
    /\ ~BareKing(last.boardBefore, ~agent.color)
    => last.value = PositionalTerms(last.boardBefore, agent.color)

\* C17 as stated: in a position with check, the check term of evaluate is
\* +20 when the opponent is the side to move (and so the side in check) and
\* -20 when the agent is.
C17_CheckTermSign ==
    /\ last.op = "evaluate"
    /\ NonTerminal(last.boardBefore)
    /\ IsCheck(last.boardBefore)
    => last.value - PositionalTerms(last.boardBefore, agent.color)
          - (10 - KingMoves(last.boardBefore, ~agent.color)) * 50
          - (IF KingOnEdge(last.boardBefore, ~agent.color) THEN 100 ELSE 0)
       = IF Turn(last.boardBefore) # agent.color THEN 20 ELSE 0 - 20

\* The value the fallback scan gives to the i-th legal move of the position
\* the last select_move call was made on.
ScanValue(i) == Evaluate(Push(last.boardBefore, i), last.before.color, 0)

\* C16: when the deepening loop gave no move, select_move returns the legal
\* move whose resulting position has the highest value of evaluate, the
\* first such move in enumeration order, and every move tried is undone.
C16_FallbackFirstBest ==
    Selected /\ last.res.source = "fallback" /\ NumLegal(last.boardBefore) > 0 =>
        /\ last.res.move \in 1..NumLegal(last.boardBefore)
        /\ \A j \in 1..NumLegal(last.boardBefore) :
              /\ ScanValue(j) <= ScanValue(last.res.move)
              /\ j < last.res.move => ScanValue(j) < ScanValue(last.res.move)
        /\ last.res.board = last.boardBefore

\* The fallback scan met two moves of the same, highest value and returned
\* the first.
C16_Witness ==
    /\ Selected
    /\ last.res.source = "fallback"
    /\ NumLegal(last.boardBefore) >= 2
    /\ last.res.move = 1
    /\ \E j \in 2..NumLegal(last.boardBefore) : ScanValue(j) = ScanValue(1)

\* The source select_move reads first for the agent of the last call has an
\* entry left, and the entry does not parse to a legal move.
SourceFails ==
    /\ Selected
    /\ IF last.before.color = WHITE /\ last.before.test_opening_moves # <<>>
       THEN /\ last.before.opening_moves_played < Len(last.before.test_opening_moves)
            /\ ~ParsesLegal(last.boardBefore, last.before.test_opening_moves,
                            last.before.opening_moves_played)
       ELSE /\ last.before.magnus_moves_played < Len(last.before.magnus_moves)
            /\ ~ParsesLegal(last.boardBefore, last.before.magnus_moves,
                            last.before.magnus_moves_played)

MaxBranch == IF RootMoves > MaxMoves THEN RootMoves ELSE MaxMoves

\* C15 as stated: in every search call of select_move the clock is read once
\* per node entered with a depth other than 0 on an unfinished game, no node
\* entered after a node found the deadline passed is expanded, and the
\* number of nodes entered from that node on is at most the depth of the
\* call.
C15_OverrunWithinDepth ==
    Selected =>
        \A i \in 1..Len(last.res.calls) :
           LET c == last.res.calls[i]
           IN /\ c.k - c.k0 = c.notes.inner + c.notes.cuts
              /\ c.notes.lateInner = 0
              /\ c.notes.late <= c.depth

\* C15 as amended: the number of nodes entered from the first node that
\* found the deadline passed is at most 1 plus, for each of the at most
\* depth - 1 ancestors of that node, its moves not yet tried.
C15_OverrunWithinDepthTimesMoves ==
    Selected =>
        \A i \in 1..Len(last.res.calls) :
           LET c == last.res.calls[i]
           IN /\ c.k - c.k0 = c.notes.inner + c.notes.cuts
              /\ c.notes.lateInner = 0
              /\ c.notes.late <= 1 + (c.depth - 1) * (MaxBranch - 1)

\* A search call in which more nodes than its depth were entered after the
\* deadline had passed, each of them a leaf.
C15_Witness ==
    /\ Selected
    /\ \E i \in 1..Len(last.res.calls) :
          /\ last.res.calls[i].notes.late > last.res.calls[i].depth
          /\ last.res.calls[i].notes.lateInner = 0
          /\ last.res.calls[i].notes.inner > 0

\* The last turn of the match asked the mover for a move.
Played1 == last.op = "play" /\ ~last.forfeit

\* The clock of side c in the match record m.
ClockOf(m, c) == IF c = WHITE THEN m.white_clock ELSE m.black_clock

\* C12: after a turn, the mover's clock is max(0, clock - t) + 0.1 (that is
\* clock - t + 0.1 when t does not exceed the clock), the other clock is as
\* it was, select_move was called once with the mover's clock as time_limit,
\* and the move returned is the last move of the board.
C12_ClockUpdate ==
    Played1 =>
        LET c0 == ClockOf(last.before, last.side)
            t == last.move_time
        IN /\ ClockOf(match, last.side) = (IF c0 - t > 0 THEN c0 - t ELSE 0) + 1
           /\ t <= c0 => ClockOf(match, last.side) = c0 - t + 1
           /\ ClockOf(match, ~last.side) = ClockOf(last.before, ~last.side)
           /\ last.calls = 1
           /\ last.time_limit = c0
           /\ board = Append(last.boardBefore, last.move)

\* A move that took 1 s of a clock of 10 s: the clock reads 9.1 s.
C12_Witness ==
    /\ Played1
    /\ last.move_time = 10
    /\ ClockOf(last.before, last.side) = 100
    /\ ClockOf(match, last.side) = 91

\* C13 as stated: a side whose last move took its whole clock or more is
\* declared out of time at its next turn, and is not asked for a move.
C13_ForfeitAfterClockSpent ==
    last.op = "play" /\ last.spent => last.forfeit /\ last.calls = 0

C19_SearchSpendsBudget ==
    Played1 /\ last.source \in {"search", "fallback"} =>
        /\ last.move_time - SleepTicks >= last.time_limit
        /\ ClockOf(match, last.side) = 1

\* A search that went on after a depth had given a move, on a clock of
\* 10 s, and left the clock at the increment.
C19_Witness ==
    /\ Played1
    /\ last.source = "search"
    /\ last.searches >= 2
    /\ last.time_limit = 100
    /\ ClockOf(match, last.side) = 1

\* The indices of s at which a token starts: an atom that is not a blank,
\* at the start of s or after a blank.
Starts(s) == {i \in 1..Len(s) : s[i] # " " /\ (i = 1 \/ s[i - 1] = " ")}

\* The token of s that starts at index i: up to the next blank or the end.
TokenAt(s, i) ==
    SubSeq(s, i, CHOOSE j \in i..Len(s) :
                    /\ j = Len(s) \/ s[j + 1] = " "
                    /\ \A x \in i..j : s[x] # " ")

RECURSIVE InOrder(_, _)
\* The tokens of s that start at the indices of the set R, in order.
InOrder(s, R) ==
    IF R = {} THEN <<>>
    ELSE LET i == CHOOSE x \in R : \A y \in R : x <= y
         IN <<TokenAt(s, i)>> \o InOrder(s, R \ {i})

\* The tokens of s on whitespace; a string with no token counts as one
\* empty token.
Tokens(s) == IF Starts(s) = {} THEN << <<>> >> ELSE InOrder(s, Starts(s))

\* t without its leading and trailing "." and ",".
Trimmed(t) ==
    LET keep == {i \in 1..Len(t) : t[i] \notin {".", ","}}
    IN IF keep = {} THEN <<>>
       ELSE SubSeq(t, CHOOSE i \in keep : \A j \in keep : i <= j,
                      CHOOSE i \in keep : \A j \in keep : j <= i)

\* t is a move number; t is the word etc.
IsNumber(t) == Len(t) > 0 /\ {t[i] : i \in 1..Len(t)} = {"1"}
IsEtc(t) == t \in {<<"etc">>, <<"Etc">>}
NotNumber(t) == ~IsNumber(t)
NotNumberNorEtc(t) == ~IsNumber(t) /\ ~IsEtc(t)

\* The trimmed tokens of s.
TrimmedTokens(s) ==
    LET tokens == Tokens(s)
    IN [i \in 1..Len(tokens) |-> Trimmed(tokens[i])]

\* The sequence moves dealt out in turn to White and to Black.
Dealt(moves) ==
    [white |-> [i \in 1..((Len(moves) + 1) \div 2) |-> moves[2 * i - 1]],
     black |-> [i \in 1..(Len(moves) \div 2) |-> moves[2 * i]]]

\* The move sequence of the last row of code c of the table.
ExampleOf(df, c) ==
    df[CHOOSE i \in 1..Len(df) : df[i].eco = c /\ \A j \in (i + 1)..Len(df) : df[j].eco # c]
       .eco_example

\* After a lookup: the move book holds, for each code of its table, the
\* lists dealt of the kept tokens of its move sequence, kept(c) being those;
\* and the lookup returned the list of the side asked, or the empty list for
\* a code of no row.
BookHolds(kept(_)) ==
    last.op = "get_opening_moves" =>
        LET codes == {move_book.df[i].eco : i \in 1..Len(move_book.df)}
        IN /\ DOMAIN move_book.openings = codes
           /\ \A c \in codes : move_book.openings[c] = Dealt(kept(c))
           /\ last.res = IF last.opening_code \in codes
                         THEN (IF last.color = WHITE
                               THEN Dealt(kept(last.opening_code)).white
                               ELSE Dealt(kept(last.opening_code)).black)
                         ELSE <<>>

====
